---- MODULE Spec2Model ----
(***************************************************************************)
(* The remote-resource services of StudyFlow (activityService,             *)
(* teacherService) and the Teachers page that calls teacherService.        *)
(*                                                                         *)
(* A service method runs in two steps: up to its `await apperClient.x()`   *)
(* it builds the request; when the transport answers (an envelope, or a    *)
(* thrown exception) it runs to its return or throw, and the awaiting      *)
(* page handler then runs to its end.                                      *)
(***************************************************************************)
EXTENDS Integers, Sequences, FiniteSets, TLC

(***************************************************************************)
(* Bounds of the model.                                                    *)
(***************************************************************************)
\* longest `results` array a write or delete response carries
MaxResults == 2
\* longest `errors` array of one failed per-record result
MaxErrors == 2
\* longest `data` array a fetchRecords response carries
MaxRows == 2
\* longest teachers list the page is driven to
MaxTeachers == 2
\* most service invocations in flight at once on the Activities page
MaxInFlight == 2

(***************************************************************************)
(* JavaScript values.  Every value carries its type tag; the payload field *)
(* is named after the type.                                                *)
(***************************************************************************)
Undef == [t |-> "undefined"]
Null == [t |-> "null"]
NaN == [t |-> "NaN"]
Str(s) == [t |-> "string", s |-> s]
Num(n) == [t |-> "number", n |-> n]
Bool(b) == [t |-> "boolean", b |-> b]
Arr(a) == [t |-> "array", a |-> a]
Obj(o) == [t |-> "object", o |-> o]
\* new Error(message)
Error(m) == [t |-> "error", message |-> m]

\* ToBoolean, as `if (x)`, `!x`, `x || y` apply it
Truthy(v) ==
  CASE v.t = "undefined" -> FALSE
    [] v.t = "null" -> FALSE
    [] v.t = "NaN" -> FALSE
    [] v.t = "string" -> v.s # ""
    [] v.t = "number" -> v.n # 0
    [] v.t = "boolean" -> v.b
    [] OTHER -> TRUE

\* a || b
Or(a, b) == IF Truthy(a) THEN a ELSE b

\* o.f, for an object held as a function from property names
Prop(o, f) == IF f \in DOMAIN o THEN o[f] ELSE Undef

\* a === b on primitives
StrictEq(a, b) == a.t # "NaN" /\ a.t = b.t /\ a = b

\* the decimal numerals the model's identifiers are written with
Numerals == [s \in {"0", "1", "2", "3", "7"} |->
               CASE s = "0" -> 0 [] s = "1" -> 1 [] s = "2" -> 2
                 [] s = "3" -> 3 [] OTHER -> 7]

\* parseInt(v), for integers, strings and arrays of them: String(v) of an array
\* joins its elements with commas, and parseInt reads the leading numeral
parseInt(v) ==
  LET first == IF v.t = "array" /\ v.a # <<>> THEN v.a[1] ELSE v
  IN  CASE first.t = "number" -> first
        [] first.t = "string" ->
             IF first.s \in DOMAIN Numerals THEN Num(Numerals[first.s]) ELSE NaN
        [] OTHER -> NaN

\* template literal `${a}: ${b}` of two strings
Template(a, b) == Str(a.s \o ": " \o b.s)

\* the lower-case form of the upper-case letters the model's strings are written with
LowerCase == [c \in {"A", "B", "E", "M", "N", "P"} |->
                CASE c = "A" -> "a" [] c = "B" -> "b" [] c = "E" -> "e"
                  [] c = "M" -> "m" [] c = "N" -> "n" [] OTHER -> "p"]

RECURSIVE toLowerCase(_)
\* s.toLowerCase(), character by character
toLowerCase(s) ==
  IF s = "" THEN ""
  ELSE LET c == SubSeq(s, 1, 1)
       IN  (IF c \in DOMAIN LowerCase THEN LowerCase[c] ELSE c)
           \o toLowerCase(SubSeq(s, 2, Len(s)))

\* s.includes(q)
includes(s, q) ==
  \E i \in 1..(Len(s) - Len(q) + 1) : SubSeq(s, i, i + Len(q) - 1) = q

RECURSIVE trimStart(_)
trimStart(s) ==
  IF s # "" /\ SubSeq(s, 1, 1) = " " THEN trimStart(SubSeq(s, 2, Len(s))) ELSE s

RECURSIVE trimEnd(_)
trimEnd(s) ==
  IF s # "" /\ SubSeq(s, Len(s), Len(s)) = " "
  THEN trimEnd(SubSeq(s, 1, Len(s) - 1)) ELSE s

\* s.trim(), for the blank
trim(s) == trimEnd(trimStart(s))

RECURSIVE Flatten(_)
\* the concatenation of the sequences ss[1], ss[2], ...
Flatten(ss) == IF ss = <<>> THEN <<>> ELSE Head(ss) \o Flatten(Tail(ss))

\* all sequences over S of length at most n
SeqsUpTo(S, n) == UNION {[1..k -> S] : k \in 0..n}

(***************************************************************************)
(* react-toastify.                                                         *)
(***************************************************************************)
ToastError(m) == [level |-> "error", text |-> m]
ToastSuccess(m) == [level |-> "success", text |-> m]

(***************************************************************************)
(* What a service method ends with: a returned value or a thrown one, and  *)
(* the notifications it emitted on the way.                                *)
(***************************************************************************)
Return(v, ts) == [kind |-> "return", value |-> v, toasts |-> ts]
Throw(e, ts) == [kind |-> "throw", value |-> e, toasts |-> ts]

IsSuccessful(r) == r.success
IsFailed(r) == ~r.success

(***************************************************************************)
(* activityService (class ActivityService, tableName 'activity_c').        *)
(***************************************************************************)
activity_tableName == "activity_c"

\* a request handed to apperClient
Request(method, table, params) == [method |-> method, table |-> table, params |-> params]

activityService_getAll_params ==
  [fields |-> <<"Name", "Tags", "subject_c", "description_c", "status_c",
                "priority_c", "due_date_c", "CreatedOn", "ModifiedOn">>,
   orderBy |-> <<[fieldName |-> "ModifiedOn", sorttype |-> "DESC"]>>,
   pagingInfo |-> [limit |-> 100, offset |-> 0]]

activityService_getById_params ==
  [fields |-> <<"Name", "Tags", "subject_c", "description_c", "status_c",
                "priority_c", "due_date_c">>]

\* create with `{ ...activityData, Tags: activityData.Tags || "" }` for formattedData
activityService_create_spread(activityData) ==
  [f \in DOMAIN activityData \cup {"Tags"} |->
     IF f = "Tags" THEN Or(Prop(activityData, "Tags"), Str("")) ELSE activityData[f]]

\* the object literal `formattedData` of create
activityService_create_formattedData(activityData) ==
  [Name |-> Prop(activityData, "Name"),
   subject_c |-> Prop(activityData, "subject_c"),
   description_c |-> Prop(activityData, "description_c"),
   status_c |-> Prop(activityData, "status_c"),
   priority_c |-> Prop(activityData, "priority_c"),
   due_date_c |-> Prop(activityData, "due_date_c"),
   Tags |-> Or(Prop(activityData, "Tags"), Str(""))]

\* the object literal `formattedData` of update
activityService_update_formattedData(id, activityData) ==
  [Id |-> parseInt(id),
   Name |-> Prop(activityData, "Name"),
   subject_c |-> Prop(activityData, "subject_c"),
   description_c |-> Prop(activityData, "description_c"),
   status_c |-> Prop(activityData, "status_c"),
   priority_c |-> Prop(activityData, "priority_c"),
   due_date_c |-> Prop(activityData, "due_date_c"),
   Tags |-> Or(Prop(activityData, "Tags"), Str(""))]

\* the requests of a service whose delete takes a list of ids
activityService_request_batch(op, id, activityData) ==
  CASE op = "getAll" ->
         Request("fetchRecords", activity_tableName, activityService_getAll_params)
    [] op = "getById" ->
         Request("getRecordById", activity_tableName,
                 [id |-> id, fields |-> activityService_getById_params.fields])
    [] op = "create" ->
         Request("createRecord", activity_tableName,
                 [records |-> <<activityService_create_formattedData(activityData)>>])
    [] op = "update" ->
         Request("updateRecord", activity_tableName,
                 [records |-> <<activityService_update_formattedData(id, activityData)>>])
    [] op = "delete" ->
         Request("deleteRecord", activity_tableName,
                 [RecordIds |-> IF id.t = "array"
                                THEN [i \in DOMAIN id.a |-> parseInt(id.a[i])]
                                ELSE <<parseInt(id)>>])

\* the request each method sends
activityService_request(op, id, activityData) ==
  CASE op = "getAll" ->
         Request("fetchRecords", activity_tableName, activityService_getAll_params)
    [] op = "getById" ->
         Request("getRecordById", activity_tableName,
                 [id |-> id, fields |-> activityService_getById_params.fields])
    [] op = "create" ->
         Request("createRecord", activity_tableName,
                 [records |-> <<activityService_create_formattedData(activityData)>>])
    [] op = "update" ->
         Request("updateRecord", activity_tableName,
                 [records |-> <<activityService_update_formattedData(id, activityData)>>])
    [] op = "delete" ->
         Request("deleteRecord", activity_tableName, [RecordIds |-> <<parseInt(id)>>])

\* getAll from the answer of fetchRecords on
activityService_getAll(response) ==
  IF response.kind = "throw"
  THEN Return(Arr(<<>>), <<ToastError(Str("Failed to load activities"))>>)
  ELSE IF ~response.success
  THEN Return(Arr(<<>>), <<ToastError(response.message)>>)
  ELSE Return(Or(response.data, Arr(<<>>)), <<>>)

\* getById that reports a missing row as a failure
activityService_getById_strict(response) ==
  IF response.kind = "throw"
  THEN Return(Null, <<ToastError(Str("Failed to load activity"))>>)
  ELSE IF ~response.success \/ ~Truthy(response.data)
  THEN Return(Null, <<ToastError(response.message)>>)
  ELSE Return(response.data, <<>>)

\* getById from the answer of getRecordById on
activityService_getById(response) ==
  IF response.kind = "throw"
  THEN Return(Null, <<ToastError(Str("Failed to load activity"))>>)
  ELSE IF ~response.success
  THEN Return(Null, <<ToastError(response.message)>>)
  ELSE Return(response.data, <<>>)

\* the toasts of one failed record of create and update
activityService_failedToasts(record) ==
  (IF Truthy(record.errors)
   THEN [i \in DOMAIN record.errors.a |->
           ToastError(Template(record.errors.a[i].fieldLabel, record.errors.a[i].message))]
   ELSE <<>>)
  \o (IF Truthy(record.message) THEN <<ToastError(record.message)>> ELSE <<>>)

\* create and update from the answer of createRecord / updateRecord on
activityService_write(response, failText, okText) ==
  IF response.kind = "throw"
  THEN Return(Null, <<ToastError(Str(failText))>>)
  ELSE IF ~response.success
  THEN Return(Null, <<ToastError(response.message)>>)
  ELSE IF Truthy(response.results)
  THEN LET successful == SelectSeq(response.results.a, IsSuccessful)
           failed == SelectSeq(response.results.a, IsFailed)
       IN  IF Len(failed) > 0
           THEN Return(Null, Flatten([i \in DOMAIN failed |->
                                        activityService_failedToasts(failed[i])]))
           ELSE IF Len(successful) > 0
           THEN Return(successful[1].data, <<ToastSuccess(Str(okText))>>)
           ELSE Return(Null, <<>>)
  ELSE Return(Null, <<>>)

activityService_create(response) ==
  activityService_write(response, "Failed to create activity",
                        "Activity created successfully")

activityService_update(response) ==
  activityService_write(response, "Failed to update activity",
                        "Activity updated successfully")

\* the toasts of one failed record of delete
activityService_deleteFailedToasts(record) ==
  IF Truthy(record.message) THEN <<ToastError(record.message)>> ELSE <<>>

\* activityService.delete with a catch block that rethrows, as teacherService's do
activityService_delete_rethrow(response) ==
  IF response.kind = "throw"
  THEN Throw(response.error, <<ToastError(Str("Failed to delete activity"))>>)
  ELSE IF ~response.success
  THEN Return(Bool(FALSE), <<ToastError(response.message)>>)
  ELSE Return(Bool(FALSE), <<>>)

\* delete from the answer of deleteRecord on
activityService_delete(response) ==
  IF response.kind = "throw"
  THEN Return(Bool(FALSE), <<ToastError(Str("Failed to delete activity"))>>)
  ELSE IF ~response.success
  THEN Return(Bool(FALSE), <<ToastError(response.message)>>)
  ELSE IF Truthy(response.results)
  THEN LET successful == SelectSeq(response.results.a, IsSuccessful)
           failed == SelectSeq(response.results.a, IsFailed)
       IN  IF Len(failed) > 0
           THEN Return(Bool(FALSE),
                       Flatten([i \in DOMAIN failed |->
                                  activityService_deleteFailedToasts(failed[i])]))
           ELSE IF Len(successful) > 0
           THEN Return(Bool(TRUE), <<ToastSuccess(Str("Activity deleted successfully"))>>)
           ELSE Return(Bool(FALSE), <<>>)
  ELSE Return(Bool(FALSE), <<>>)

activityService_resume(op, response) ==
  CASE op = "getAll" -> activityService_getAll(response)
    [] op = "getById" -> activityService_getById(response)
    [] op = "create" -> activityService_create(response)
    [] op = "update" -> activityService_update(response)
    [] op = "delete" -> activityService_delete(response)

(***************************************************************************)
(* teacherService (table 'teacher_c').                                     *)
(***************************************************************************)
teacher_tableName == "teacher_c"

teacherService_getAll_params ==
  [fields |-> <<"Id", "name_c", "email_c", "department_c">>,
   orderBy |-> <<[fieldName |-> "name_c", sorttype |-> "ASC"]>>,
   pagingInfo |-> [limit |-> 100, offset |-> 0]]

teacherService_getById_params ==
  [fields |-> <<"Id", "name_c", "email_c", "department_c">>]

\* the object literal `filteredData` of create
teacherService_create_filteredData(teacherData) ==
  [name_c |-> Prop(teacherData, "name_c"),
   email_c |-> Prop(teacherData, "email_c"),
   department_c |-> Prop(teacherData, "department_c")]

\* the object literal `filteredData` of update
teacherService_update_filteredData(teacherId, teacherData) ==
  [Id |-> teacherId,
   name_c |-> Prop(teacherData, "name_c"),
   email_c |-> Prop(teacherData, "email_c"),
   department_c |-> Prop(teacherData, "department_c")]

\* the request each method sends
teacherService_request(op, teacherId, teacherData) ==
  CASE op = "getAll" ->
         Request("fetchRecords", teacher_tableName, teacherService_getAll_params)
    [] op = "getById" ->
         Request("getRecordById", teacher_tableName,
                 [id |-> teacherId, fields |-> teacherService_getById_params.fields])
    [] op = "create" ->
         Request("createRecord", teacher_tableName,
                 [records |-> <<teacherService_create_filteredData(teacherData)>>])
    [] op = "update" ->
         Request("updateRecord", teacher_tableName,
                 [records |-> <<teacherService_update_filteredData(teacherId, teacherData)>>])
    [] op = "delete" ->
         Request("deleteRecord", teacher_tableName, [RecordIds |-> <<teacherId>>])

\* response?.data?.length, as `!` reads it
teacherService_hasRows(response) ==
  response.data.t = "array" /\ Len(response.data.a) # 0

\* getAll that hands on response.data as it is
teacherService_getAll_raw(response) ==
  IF response.kind = "throw"
  THEN Throw(response.error, <<>>)
  ELSE Return(response.data, <<>>)

\* getAll from the answer of fetchRecords on
teacherService_getAll(response) ==
  IF response.kind = "throw"
  THEN Throw(response.error, <<>>)
  ELSE IF ~teacherService_hasRows(response)
  THEN Return(Arr(<<>>), <<>>)
  ELSE Return(response.data, <<>>)

\* getById from the answer of getRecordById on
teacherService_getById(response) ==
  IF response.kind = "throw"
  THEN Throw(response.error, <<>>)
  ELSE IF ~Truthy(response.data)
  THEN Return(Null, <<>>)
  ELSE Return(response.data, <<>>)

HasMessage(record) == Truthy(record.message)

\* failed.forEach(record => { if (record.message) throw new Error(record.message) }):
\* the first failed record that has a message ends the method
teacherService_failedThrow(failed) ==
  LET withMessage == SelectSeq(failed, HasMessage)
  IN  IF Len(withMessage) > 0 THEN <<Error(withMessage[1].message)>> ELSE <<>>

\* the data of the last successful result instead of the first
teacherService_lastData(successful) ==
  IF Len(successful) > 0 THEN successful[Len(successful)].data ELSE Undef

\* successful[0]?.data
teacherService_firstData(successful) ==
  IF Len(successful) > 0 THEN successful[1].data ELSE Undef

\* create and update from the answer of createRecord / updateRecord on
teacherService_write(response) ==
  IF response.kind = "throw"
  THEN Throw(response.error, <<>>)
  ELSE IF ~response.success
  THEN Throw(Error(response.message), <<>>)
  ELSE IF Truthy(response.results)
  THEN LET successful == SelectSeq(response.results.a, IsSuccessful)
           failed == SelectSeq(response.results.a, IsFailed)
           thrown == teacherService_failedThrow(failed)
       IN  IF Len(failed) > 0 /\ thrown # <<>>
           THEN Throw(thrown[1], <<>>)
           ELSE Return(teacherService_firstData(successful), <<>>)
  ELSE Return(Undef, <<>>)

teacherService_create(response) == teacherService_write(response)

teacherService_update(response) == teacherService_write(response)

\* delete from the answer of deleteRecord on
teacherService_delete(response) ==
  IF response.kind = "throw"
  THEN Throw(response.error, <<>>)
  ELSE IF ~response.success
  THEN Throw(Error(response.message), <<>>)
  ELSE IF Truthy(response.results)
  THEN LET successful == SelectSeq(response.results.a, IsSuccessful)
           failed == SelectSeq(response.results.a, IsFailed)
           thrown == teacherService_failedThrow(failed)
       IN  IF Len(failed) > 0 /\ thrown # <<>>
           THEN Throw(thrown[1], <<>>)
           ELSE Return(Bool(Len(successful) > 0), <<>>)
  ELSE Return(Undef, <<>>)

teacherService_resume(op, response) ==
  CASE op = "getAll" -> teacherService_getAll(response)
    [] op = "getById" -> teacherService_getById(response)
    [] op = "create" -> teacherService_create(response)
    [] op = "update" -> teacherService_update(response)
    [] op = "delete" -> teacherService_delete(response)

(***************************************************************************)
(* The transport (apperClient): the answers it can give.                   *)
(***************************************************************************)
\* { success, message, data, results }
Envelope(success, message, data, results) ==
  [kind |-> "envelope", success |-> success, message |-> message,
   data |-> data, results |-> results]

\* the call rejects (a network failure)
Thrown == [kind |-> "throw", error |-> Error(Str("Network Error"))]

\* one entry of `results`: { success, data, message, errors }
Result(success, data, message, errors) ==
  [success |-> success, data |-> data, message |-> message, errors |-> errors]

ActivityRows ==
  {Obj([Id |-> Num(42), Name |-> Str("Essay"), subject_c |-> Str("English")]),
   Obj([Id |-> Num(7), Name |-> Str("Lab"), subject_c |-> Str("Physics")])}

TeacherRows ==
  {Obj([Id |-> Num(1), name_c |-> Str("Ann"), email_c |-> Str("ann@x.io"),
        department_c |-> Str("Math")]),
   Obj([Id |-> Num(2), name_c |-> Str("Bob"), email_c |-> Str("bob@x.io"),
        department_c |-> Str("Art")])}

Rows(svc) == IF svc = "activity" THEN ActivityRows ELSE TeacherRows

\* the row a successful write answers with
WrittenRow(svc) == CHOOSE r \in Rows(svc) : r.o.Id \in {Num(42), Num(1)}

EnvelopeMessages == {Undef, Str("Request failed")}
RecordMessages == {Undef, Str("Record does not exist")}

FieldLabels == <<"due_date_c", "Name", "subject_c", "email_c">>

\* the i-th field-level reason of a failed record
FieldError(i) ==
  [fieldLabel |-> Str(FieldLabels[((i - 1) % Len(FieldLabels)) + 1]),
   message |-> Str("required")]

ErrorLists == {Undef} \cup {Arr([i \in 1..k |-> FieldError(i)]) : k \in 0..MaxErrors}

WriteResults(svc) ==
  {Result(TRUE, d, Undef, Undef) : d \in {WrittenRow(svc), Undef}}
  \cup {Result(FALSE, Undef, m, e) : m \in RecordMessages, e \in ErrorLists}

DeleteResults ==
  {Result(TRUE, Undef, Undef, Undef)}
  \cup {Result(FALSE, Undef, m, Undef) : m \in RecordMessages}

Failure == {Envelope(FALSE, m, Undef, Undef) : m \in EnvelopeMessages}

\* every answer of the transport to the request of `op`
Responses(svc, op) ==
  CASE op = "getAll" ->
         {Envelope(ok, m, d, Undef) :
            ok \in BOOLEAN, m \in EnvelopeMessages,
            d \in {Undef, Null} \cup {Arr(q) : q \in SeqsUpTo(Rows(svc), MaxRows)}}
         \cup {Thrown}
    [] op = "getById" ->
         {Envelope(ok, m, d, Undef) :
            ok \in BOOLEAN, m \in EnvelopeMessages, d \in {Undef, Null} \cup Rows(svc)}
         \cup {Thrown}
    [] op \in {"create", "update"} ->
         {Envelope(TRUE, Undef, Undef, r) :
            r \in {Undef} \cup {Arr(q) : q \in SeqsUpTo(WriteResults(svc), MaxResults)}}
         \cup Failure \cup {Thrown}
    [] op = "delete" ->
         {Envelope(TRUE, Undef, Undef, r) :
            r \in {Undef} \cup {Arr(q) : q \in SeqsUpTo(DeleteResults, MaxResults)}}
         \cup Failure \cup {Thrown}

(***************************************************************************)
(* The arguments callers pass.                                             *)
(***************************************************************************)
Services == {"activity", "teacher"}

\* identifiers, well-formed and not
Ids == {Num(7), Str("7"), Str("abc"), Undef, Num(0)}

\* lists of ids, for a caller that hands delete several ids at once
IdLists == {Arr(<<Num(7)>>), Arr(<<Num(1), Num(2)>>)}

ActivityUpdateable ==
  {"Name", "subject_c", "description_c", "status_c", "priority_c", "due_date_c", "Tags"}
TeacherUpdateable == {"name_c", "email_c", "department_c"}
Updateable(svc) == IF svc = "activity" THEN ActivityUpdateable ELSE TeacherUpdateable

\* fields a payload may carry beyond the updateable ones
ForeignFields == {"Id", "CreatedOn", "ModifiedOn", "bogus"}

AnyActivity ==
  [Name |-> Str("Essay"), subject_c |-> Str("English"), description_c |-> Str("Draft"),
   status_c |-> Str("Not Started"), priority_c |-> Str("Normal"),
   due_date_c |-> Str("2024-05-01"), Tags |-> Str("a,b"),
   Id |-> Num(99), CreatedOn |-> Str("2024-01-01"), ModifiedOn |-> Str("2024-01-02"),
   bogus |-> Str("x")]

AnyTeacher ==
  [name_c |-> Str("Ann"), email_c |-> Str("ann@x.io"), department_c |-> Str("Math"),
   Id |-> Num(99), CreatedOn |-> Str("2024-01-01"), ModifiedOn |-> Str("2024-01-02"),
   bogus |-> Str("x")]

Restrict(o, keys) == [f \in keys |-> o[f]]

\* the payloads a caller passes: the updateable fields, the updateable and the
\* foreign fields, some updateable fields and the foreign ones
Payloads(svc) ==
  LET any == IF svc = "activity" THEN AnyActivity ELSE AnyTeacher
      some == IF svc = "activity" THEN {"Name", "subject_c"} ELSE {"name_c"}
  IN  {Restrict(any, keys) :
         keys \in {Updateable(svc), Updateable(svc) \cup ForeignFields,
                   some \cup ForeignFields}}

(***************************************************************************)
(* State.                                                                  *)
(***************************************************************************)
VARIABLES
  call,            \* the service invocation in progress or just completed (a log:
                   \* the next thing the user does on the page clears it)
  toasts,          \* the notifications emitted for it, by the service and its caller
  mounted,         \* the Teachers page is mounted
  teachers,        \* Teachers: useState([])
  loading,         \* Teachers: useState(true)
  error,           \* Teachers: useState(null)
  showModal,       \* Teachers: useState(false)
  editingTeacher,  \* Teachers: useState(null)
  formData,        \* Teachers: useState({ name_c: '', email_c: '', department_c: '' })
  activitiesMounted,    \* the Activities page is mounted
  activities,           \* Activities: useState([])
  activitiesLoading,    \* Activities: useState(true), `loading`
  activitiesError,      \* Activities: useState(null), `error`
  activitiesShowModal,  \* Activities: useState(false), `showModal`
  selectedActivity,     \* Activities: useState(null)
  inflight,             \* Activities: the invocations awaiting their answer, in the
                        \* order they were started
  lastLoad,             \* Activities: the loadActivities call started last (a log)
  activityFormData,     \* ActivityModal: useState({ Name: "", ... }), `formData`
  saving,               \* ActivityModal: useState(false)
  errors,               \* ActivityModal: useState({})
  searchQuery,          \* Teachers: useState('')
  filterDepartment,     \* Teachers: useState('all')
  filteredTeachers      \* Teachers: useState([])

\* the state of the filters of the Teachers page
filters == <<searchQuery, filterDepartment, filteredTeachers>>
\* the state of the ActivityModal the Activities page renders while it shows its
\* list and showModal is set; unmounted, it is the state of its next mount
modal == <<activityFormData, saving, errors>>
page == <<mounted, teachers, loading, error, showModal, editingTeacher, formData,
          filters>>
activitiesPage ==
  <<activitiesMounted, activities, activitiesLoading, activitiesError,
    activitiesShowModal, selectedActivity, inflight, lastLoad, modal>>
vars == <<call, toasts, page, activitiesPage>>

\* no invocation yet
NoCall ==
  [pc |-> "idle", caller |-> "none", svc |-> "none", op |-> "none", id |-> Undef,
   data |-> Undef, captured |-> Undef, requests |-> <<>>, response |-> Undef,
   outcome |-> Undef]

\* a service method was entered and has sent its request
Awaiting(caller, svc, op, id, data, captured) ==
  [pc |-> "awaiting", caller |-> caller, svc |-> svc, op |-> op, id |-> id,
   data |-> data, captured |-> captured,
   requests |-> <<IF svc = "activity" THEN activityService_request(op, id, data)
                  ELSE teacherService_request(op, id, data)>>,
   response |-> Undef, outcome |-> Undef]

\* the method of `call`, run from the transport's answer to its return or throw
Resume(response) ==
  IF call.svc = "activity" THEN activityService_resume(call.op, response)
  ELSE teacherService_resume(call.op, response)

\* the invocation ended with outcome r
Done(response, r) ==
  [call EXCEPT !.pc = "done", !.response = response,
               !.outcome = [kind |-> r.kind, value |-> r.value]]

emptyForm == [name_c |-> Str(""), email_c |-> Str(""), department_c |-> Str("")]

\* the initial formData of ActivityModal
emptyActivityForm ==
  [Name |-> Str(""), subject_c |-> Str(""), description_c |-> Str(""),
   status_c |-> Str("Not Started"), priority_c |-> Str("Normal"),
   due_date_c |-> Str(""), Tags |-> Str("")]

\* an object without properties
NoProps == [f \in {} |-> Undef]

Init ==
  /\ call = NoCall
  /\ toasts = <<>>
  /\ mounted = FALSE
  /\ teachers = <<>>
  /\ loading = TRUE
  /\ error = Null
  /\ showModal = FALSE
  /\ editingTeacher = Null
  /\ formData = emptyForm
  /\ activitiesMounted = FALSE
  /\ activities = <<>>
  /\ activitiesLoading = TRUE
  /\ activitiesError = Null
  /\ activitiesShowModal = FALSE
  /\ selectedActivity = Null
  /\ inflight = <<>>
  /\ lastLoad = NoCall
  /\ activityFormData = emptyActivityForm
  /\ saving = FALSE
  /\ errors = NoProps
  /\ searchQuery = Str("")
  /\ filterDepartment = Str("all")
  /\ filteredTeachers = <<>>

(***************************************************************************)
(* A service method called on its own, with any arguments.                 *)
(***************************************************************************)
Invoke(svc, op, id, data) ==
  /\ ~mounted
  /\ call.pc # "awaiting"
  /\ call' = Awaiting("direct", svc, op, id, data, Undef)
  /\ toasts' = <<>>
  /\ UNCHANGED page
  /\ UNCHANGED activitiesPage

InvokeAny ==
  \E svc \in Services :
    \/ Invoke(svc, "getAll", Undef, Undef)
    \/ \E id \in Ids : Invoke(svc, "getById", id, Undef)
    \/ \E data \in Payloads(svc) : Invoke(svc, "create", Undef, data)
    \/ \E id \in Ids, data \in Payloads(svc) : Invoke(svc, "update", id, data)
    \/ \E id \in Ids \cup IdLists : Invoke(svc, "delete", id, Undef)

\* the transport answers; the method runs to its end
Answer ==
  /\ call.pc = "awaiting"
  /\ call.caller = "direct"
  /\ \E response \in Responses(call.svc, call.op) :
       LET r == Resume(response)
       IN  /\ call' = Done(response, r)
           /\ toasts' = toasts \o r.toasts
  /\ UNCHANGED page
  /\ UNCHANGED activitiesPage

(***************************************************************************)
(* The Teachers page.                                                      *)
(***************************************************************************)
\* the render reads t.department_c of every element of teachers
RenderThrows == \E i \in DOMAIN teachers : teachers[i].t # "object"

\* filterTeachers that compares the fields as they are written
filterTeachers_caseSensitive(list, query, department) ==
  LET has(teacher, f) ==
        /\ Truthy(Prop(teacher.o, f))
        /\ includes(Prop(teacher.o, f).s, toLowerCase(query.s))
      bySearch(teacher) ==
        has(teacher, "name_c") \/ has(teacher, "email_c") \/ has(teacher, "department_c")
      byDepartment(teacher) == StrictEq(Prop(teacher.o, "department_c"), department)
      searched == IF Truthy(query) THEN SelectSeq(list, bySearch) ELSE list
  IN  IF ~StrictEq(department, Str("all"))
      THEN SelectSeq(searched, byDepartment) ELSE searched

\* filterTeachers, for the teachers `list`, searchQuery and filterDepartment it
\* reads; the value it hands to setFilteredTeachers
filterTeachers(list, query, department) ==
  LET has(teacher, f) ==
        /\ Truthy(Prop(teacher.o, f))
        /\ includes(toLowerCase(Prop(teacher.o, f).s), toLowerCase(query.s))
      bySearch(teacher) ==
        has(teacher, "name_c") \/ has(teacher, "email_c") \/ has(teacher, "department_c")
      byDepartment(teacher) == StrictEq(Prop(teacher.o, "department_c"), department)
      searched == IF Truthy(query) THEN SelectSeq(list, bySearch) ELSE list
  IN  IF ~StrictEq(department, Str("all"))
      THEN SelectSeq(searched, byDepartment) ELSE searched

\* useEffect(() => { filterTeachers() }, [teachers, searchQuery, filterDepartment]):
\* filteredTeachers after the render of the new state, which runs the effect
\* unless the render throws
Teachers_effect(list, query, department) ==
  IF \E i \in DOMAIN list : list[i].t # "object" THEN filteredTeachers
  ELSE filterTeachers(list, query, department)

\* the page shows its list and buttons, and no call of its own is in flight
Interactive ==
  /\ mounted
  /\ call.pc # "awaiting"
  /\ ~loading
  /\ ~Truthy(error)
  /\ ~RenderThrows

\* what the user types into the form
FormValues ==
  [name_c |-> {Str(""), Str("Cy")}, email_c |-> {Str(""), Str("cy@x.io")},
   department_c |-> {Str(""), Str("Art")}]

\* useEffect(() => { loadTeachers() }, []), up to `await teacherService.getAll()`
loadTeachers ==
  /\ ~mounted
  /\ call.pc = "idle"
  /\ mounted' = TRUE
  /\ loading' = TRUE
  /\ call' = Awaiting("loadTeachers", "teacher", "getAll", Undef, Undef, Undef)
  /\ toasts' = <<>>
  /\ UNCHANGED <<teachers, error, showModal, editingTeacher, formData>>
  /\ UNCHANGED activitiesPage
  /\ UNCHANGED filters

\* loadTeachers from the answer on
loadTeachers_resume ==
  /\ call.pc = "awaiting"
  /\ call.caller = "loadTeachers"
  /\ \E response \in Responses(call.svc, call.op) :
       LET r == Resume(response)
       IN  /\ call' = Done(response, r)
           /\ IF r.kind = "return"
              THEN /\ teachers' = r.value.a
                   /\ error' = Null
                   /\ toasts' = toasts \o r.toasts
              ELSE /\ error' = Str("Failed to load teachers")
                   /\ toasts' = toasts \o r.toasts
                                  \o <<ToastError(Str("Failed to load teachers"))>>
                   /\ UNCHANGED teachers
  /\ loading' = FALSE
  /\ UNCHANGED <<mounted, showModal, editingTeacher, formData>>
  /\ UNCHANGED activitiesPage
  /\ filteredTeachers' = Teachers_effect(teachers', searchQuery, filterDepartment)
  /\ UNCHANGED <<searchQuery, filterDepartment>>

openModal(teacher) ==
  /\ Interactive
  /\ ~showModal
  /\ editingTeacher' = teacher
  /\ formData' = IF Truthy(teacher)
                 THEN [name_c |-> Or(Prop(teacher.o, "name_c"), Str("")),
                       email_c |-> Or(Prop(teacher.o, "email_c"), Str("")),
                       department_c |-> Or(Prop(teacher.o, "department_c"), Str(""))]
                 ELSE emptyForm
  /\ showModal' = TRUE
  /\ call' = NoCall
  /\ toasts' = <<>>
  /\ UNCHANGED <<mounted, teachers, loading, error>>
  /\ UNCHANGED activitiesPage
  /\ UNCHANGED filters

closeModal ==
  /\ Interactive
  /\ showModal
  /\ showModal' = FALSE
  /\ editingTeacher' = Null
  /\ formData' = emptyForm
  /\ call' = NoCall
  /\ toasts' = <<>>
  /\ UNCHANGED <<mounted, teachers, loading, error>>
  /\ UNCHANGED activitiesPage
  /\ UNCHANGED filters

\* onChange of one input of the form
setFormData(field, value) ==
  /\ Interactive
  /\ showModal
  /\ formData' = [formData EXCEPT ![field] = value]
  /\ call' = NoCall
  /\ toasts' = <<>>
  /\ UNCHANGED <<mounted, teachers, loading, error, showModal, editingTeacher>>
  /\ UNCHANGED activitiesPage
  /\ UNCHANGED filters

\* handleSubmit up to its `await`, or to its early return
handleSubmit ==
  /\ Interactive
  /\ showModal
  /\ IF \/ ~Truthy(formData.name_c)
        \/ ~Truthy(formData.email_c)
        \/ ~Truthy(formData.department_c)
     THEN /\ toasts' = <<ToastError(Str("Please fill in all required fields"))>>
          /\ call' = NoCall
     ELSE /\ toasts' = <<>>
          /\ IF Truthy(editingTeacher)
             THEN call' = Awaiting("handleSubmit", "teacher", "update",
                                   Prop(editingTeacher.o, "Id"), formData, editingTeacher)
             ELSE /\ Len(teachers) < MaxTeachers
                  /\ call' = Awaiting("handleSubmit", "teacher", "create", Undef,
                                      formData, editingTeacher)
  /\ UNCHANGED page
  /\ UNCHANGED activitiesPage

\* prev.map(t => t.Id === editingTeacher.Id ? updatedTeacher : t)
replaceTeacher(prev, editing, updatedTeacher) ==
  [i \in DOMAIN prev |->
     IF StrictEq(Prop(prev[i].o, "Id"), Prop(editing.o, "Id"))
     THEN updatedTeacher ELSE prev[i]]

\* handleSubmit from the answer on
handleSubmit_resume ==
  /\ call.pc = "awaiting"
  /\ call.caller = "handleSubmit"
  /\ \E response \in Responses(call.svc, call.op) :
       LET r == Resume(response)
       IN  /\ call' = Done(response, r)
           /\ IF r.kind = "return"
              THEN /\ teachers' =
                        IF Truthy(call.captured)
                        THEN replaceTeacher(teachers, call.captured, r.value)
                        ELSE Append(teachers, r.value)
                   /\ toasts' = toasts \o r.toasts
                        \o <<ToastSuccess(Str(IF Truthy(call.captured)
                                              THEN "Teacher updated successfully"
                                              ELSE "Teacher added successfully"))>>
                   /\ showModal' = FALSE
                   /\ editingTeacher' = Null
                   /\ formData' = emptyForm
              ELSE /\ toasts' = toasts \o r.toasts
                                  \o <<ToastError(Str("Failed to save teacher"))>>
                   /\ UNCHANGED <<teachers, showModal, editingTeacher, formData>>
  /\ UNCHANGED <<mounted, loading, error>>
  /\ UNCHANGED activitiesPage
  /\ filteredTeachers' = Teachers_effect(teachers', searchQuery, filterDepartment)
  /\ UNCHANGED <<searchQuery, filterDepartment>>

IdIsNot(teacherId, t) == ~StrictEq(Prop(t.o, "Id"), teacherId)

\* handleDelete up to its `await`, or to its early return
handleDelete(teacher, confirmed) ==
  /\ Interactive
  /\ ~showModal
  /\ IF ~confirmed
     THEN UNCHANGED <<call, toasts>>
     ELSE /\ call' = Awaiting("handleDelete", "teacher", "delete",
                              Prop(teacher.o, "Id"), Undef, Undef)
          /\ toasts' = <<>>
  /\ UNCHANGED page
  /\ UNCHANGED activitiesPage

\* handleDelete from the answer on
handleDelete_resume ==
  /\ call.pc = "awaiting"
  /\ call.caller = "handleDelete"
  /\ \E response \in Responses(call.svc, call.op) :
       LET r == Resume(response)
           keep(t) == IdIsNot(call.id, t)
       IN  /\ call' = Done(response, r)
           /\ IF r.kind = "return"
              THEN /\ teachers' = SelectSeq(teachers, keep)
                   /\ toasts' = toasts \o r.toasts
                                  \o <<ToastSuccess(Str("Teacher deleted successfully"))>>
              ELSE /\ toasts' = toasts \o r.toasts
                                  \o <<ToastError(Str("Failed to delete teacher"))>>
                   /\ UNCHANGED teachers
  /\ UNCHANGED <<mounted, loading, error, showModal, editingTeacher, formData>>
  /\ UNCHANGED activitiesPage
  /\ filteredTeachers' = Teachers_effect(teachers', searchQuery, filterDepartment)
  /\ UNCHANGED <<searchQuery, filterDepartment>>

\* `departments`, the options of the department filter besides 'all'
departments ==
  {Prop(teachers[i].o, "department_c") : i \in DOMAIN teachers} \ {Undef, Null, Str("")}

\* what the user types into the search bar
Queries == {Str(""), Str("AN"), Str("art"), Str("x.io"), Str("bo"), Str("zz")}

\* onChange={setSearchQuery} of the search bar
setSearchQuery(query) ==
  /\ Interactive
  /\ ~showModal
  /\ searchQuery' = query
  /\ filteredTeachers' = Teachers_effect(teachers, query, filterDepartment)
  /\ call' = NoCall
  /\ toasts' = <<>>
  /\ UNCHANGED <<mounted, teachers, loading, error, showModal, editingTeacher, formData,
                 filterDepartment>>
  /\ UNCHANGED activitiesPage

\* onChange of the department select
setFilterDepartment(department) ==
  /\ Interactive
  /\ ~showModal
  /\ filterDepartment' = department
  /\ filteredTeachers' = Teachers_effect(teachers, searchQuery, department)
  /\ call' = NoCall
  /\ toasts' = <<>>
  /\ UNCHANGED <<mounted, teachers, loading, error, showModal, editingTeacher, formData,
                 searchQuery>>
  /\ UNCHANGED activitiesPage

\* onClick of 'Clear Filters'
clearFilters ==
  /\ Interactive
  /\ ~showModal
  /\ searchQuery' = Str("")
  /\ filterDepartment' = Str("all")
  /\ filteredTeachers' = Teachers_effect(teachers, Str(""), Str("all"))
  /\ call' = NoCall
  /\ toasts' = <<>>
  /\ UNCHANGED <<mounted, teachers, loading, error, showModal, editingTeacher, formData>>
  /\ UNCHANGED activitiesPage

TeachersPage ==
  \/ loadTeachers
  \/ loadTeachers_resume
  \/ \E i \in DOMAIN teachers : openModal(teachers[i])
  \/ openModal(Null)
  \/ closeModal
  \/ \E field \in DOMAIN FormValues : \E value \in FormValues[field] :
       setFormData(field, value)
  \/ handleSubmit
  \/ handleSubmit_resume
  \/ \E i \in DOMAIN teachers, confirmed \in BOOLEAN : handleDelete(teachers[i], confirmed)
  \/ handleDelete_resume

Next == InvokeAny \/ Answer \/ TeachersPage

Spec == Init /\ [][Next]_vars

\* the Teachers page with its filters in use
FilterNext ==
  \/ loadTeachers
  \/ loadTeachers_resume
  \/ \E query \in Queries : setSearchQuery(query)
  \/ \E department \in departments \cup {Str("all")} : setFilterDepartment(department)
  \/ clearFilters
  \/ \E i \in DOMAIN teachers, confirmed \in BOOLEAN : handleDelete(teachers[i], confirmed)
  \/ handleDelete_resume

SpecFilter == Init /\ [][FilterNext]_vars

(***************************************************************************)
(* The Activities page.  Its handlers do not wait for one another: a       *)
(* delete and several loadActivities calls can be in flight together, and  *)
(* the transport answers them in any order.  `call` and `toasts` hold the  *)
(* invocation that completed last and its notifications.                   *)
(***************************************************************************)
\* the listings fetchRecords answers with while the page is open
Listings(svc) ==
  LET first == WrittenRow(svc)
      second == CHOOSE r \in Rows(svc) : r # first
  IN  {<<>>, <<first>>, <<second, first>>}

\* the answers of the transport to the calls of the page
PageResponses(svc, op) ==
  IF op = "getAll"
  THEN {Envelope(TRUE, Undef, Arr(q), Undef) : q \in Listings(svc)}
       \cup {Envelope(FALSE, Str("Request failed"), Undef, Undef), Thrown}
  ELSE IF op \in {"create", "update"}
  THEN {Envelope(TRUE, Undef, Undef, Arr(<<Result(TRUE, d, Undef, Undef)>>)) :
          d \in {WrittenRow(svc), Undef}}
       \cup {Envelope(TRUE, Undef, Undef, r) :
               r \in {Undef,
                      Arr(<<Result(FALSE, Undef, Str("Record does not exist"), Undef)>>)}}
       \cup {Envelope(FALSE, Str("Request failed"), Undef, Undef), Thrown}
  ELSE {Envelope(TRUE, Undef, Undef, Arr(<<Result(TRUE, Undef, Undef, Undef)>>)),
        Envelope(TRUE, Undef, Undef,
                 Arr(<<Result(FALSE, Undef, Str("Record does not exist"), Undef)>>)),
        Thrown}

\* s without its i-th element
Remove(s, i) == SubSeq(s, 1, i - 1) \o SubSeq(s, i + 1, Len(s))

\* a service whose methods keep the operation in a field of the shared instance:
\* the method resumes as the operation entered last
ResumeOf_shared(c, response) ==
  LET op == inflight[Len(inflight)].op
  IN  IF c.svc = "activity" THEN activityService_resume(op, response)
      ELSE teacherService_resume(op, response)

\* the method of the invocation c, run from the transport's answer to its return
\* or throw
ResumeOf(c, response) ==
  IF c.svc = "activity" THEN activityService_resume(c.op, response)
  ELSE teacherService_resume(c.op, response)

\* the invocation c ended with outcome r
DoneOf(c, response, r) ==
  [c EXCEPT !.pc = "done", !.response = response,
            !.outcome = [kind |-> r.kind, value |-> r.value]]

\* the page shows its list and buttons
ActivitiesVisible ==
  /\ activitiesMounted
  /\ ~activitiesLoading
  /\ ~Truthy(activitiesError)

IsLoad(c) == c.caller = "loadActivities"

\* the submits of the mounted modal, and those of a modal since unmounted
ModalCaller == "ActivityModal.handleSubmit"
OrphanCaller == "ActivityModal.handleSubmit, unmounted"

\* the invocations in flight when the modal unmounts: its submits go on, and
\* their setSaving and setErrors no longer reach a mounted component
ActivityModal_unmounted(waiting) ==
  [i \in DOMAIN waiting |->
     IF waiting[i].caller = ModalCaller
     THEN [waiting[i] EXCEPT !.caller = OrphanCaller] ELSE waiting[i]]

\* the state of ActivityModal after its mount for `activity`: the useState
\* defaults, then useEffect(() => { if (activity) setFormData(...) }, [activity])
ActivityModal_mount(activity) ==
  /\ activityFormData' =
       IF Truthy(activity)
       THEN [Name |-> Or(Prop(activity.o, "Name"), Str("")),
             subject_c |-> Or(Prop(activity.o, "subject_c"), Str("")),
             description_c |-> Or(Prop(activity.o, "description_c"), Str("")),
             status_c |-> Or(Prop(activity.o, "status_c"), Str("Not Started")),
             priority_c |-> Or(Prop(activity.o, "priority_c"), Str("Normal")),
             due_date_c |-> Or(Prop(activity.o, "due_date_c"), Str("")),
             Tags |-> Or(Prop(activity.o, "Tags"), Str(""))]
       ELSE emptyActivityForm
  /\ saving' = FALSE
  /\ errors' = NoProps

\* loadActivities up to `await activityService.getAll()`
loadActivities_call ==
  Awaiting("loadActivities", "activity", "getAll", Undef, Undef, Undef)

\* loadActivities up to its `await`, entered with `waiting` in flight
\* the page renders <Loading /> from here on, which unmounts the modal
loadActivities(waiting) ==
  /\ activitiesLoading' = TRUE
  /\ activitiesError' = Null
  /\ inflight' = Append(ActivityModal_unmounted(waiting), loadActivities_call)
  /\ lastLoad' = loadActivities_call
  /\ ActivityModal_mount(Null)

\* useEffect(() => { loadActivities(); }, [])
Activities_mount ==
  /\ ~activitiesMounted
  /\ activitiesMounted' = TRUE
  /\ loadActivities(inflight)
  /\ UNCHANGED <<call, toasts, page, activities, activitiesShowModal, selectedActivity>>

\* loadActivities from the answer to its i-th invocation in flight on
loadActivities_resume(i) ==
  /\ IsLoad(inflight[i])
  /\ \E response \in PageResponses(inflight[i].svc, inflight[i].op) :
       LET r == ResumeOf(inflight[i], response)
           latest == /\ lastLoad.pc = "awaiting"
                     /\ \A j \in DOMAIN inflight : j > i => ~IsLoad(inflight[j])
       IN  /\ call' = DoneOf(inflight[i], response, r)
           /\ toasts' = r.toasts
           /\ lastLoad' = IF latest THEN DoneOf(inflight[i], response, r) ELSE lastLoad
           /\ IF r.kind = "return"
              THEN /\ activities' = Or(r.value, Arr(<<>>)).a
                   /\ UNCHANGED activitiesError
              ELSE /\ activitiesError' =
                        Or(r.value.message, Str("Failed to load activities"))
                   /\ UNCHANGED activities
  /\ activitiesLoading' = FALSE
  /\ inflight' = Remove(inflight, i)
  /\ IF activitiesLoading /\ activitiesShowModal /\ ~Truthy(activitiesError')
     THEN ActivityModal_mount(selectedActivity)
     ELSE UNCHANGED modal
  /\ UNCHANGED <<page, activitiesMounted, activitiesShowModal, selectedActivity>>

handleCreateActivity ==
  /\ ActivitiesVisible
  /\ ~activitiesShowModal
  /\ selectedActivity' = Null
  /\ activitiesShowModal' = TRUE
  /\ ActivityModal_mount(Null)
  /\ call' = NoCall
  /\ toasts' = <<>>
  /\ UNCHANGED <<page, activitiesMounted, activities, activitiesLoading,
                 activitiesError, inflight, lastLoad>>

handleEditActivity(activity) ==
  /\ ActivitiesVisible
  /\ ~activitiesShowModal
  /\ selectedActivity' = activity
  /\ activitiesShowModal' = TRUE
  /\ ActivityModal_mount(activity)
  /\ call' = NoCall
  /\ toasts' = <<>>
  /\ UNCHANGED <<page, activitiesMounted, activities, activitiesLoading,
                 activitiesError, inflight, lastLoad>>

\* onClose={() => setShowModal(false)}
Activities_onClose ==
  /\ ActivitiesVisible
  /\ activitiesShowModal
  /\ activitiesShowModal' = FALSE
  /\ inflight' = ActivityModal_unmounted(inflight)
  /\ ActivityModal_mount(Null)
  /\ call' = NoCall
  /\ toasts' = <<>>
  /\ UNCHANGED <<page, activitiesMounted, activities, activitiesLoading,
                 activitiesError, selectedActivity, lastLoad>>

\* onSave of the modal, which it calls when its create or update has returned a
\* record
handleModalSave ==
  /\ activitiesMounted
  /\ activitiesShowModal
  /\ Len(inflight) < MaxInFlight
  /\ activitiesShowModal' = FALSE
  /\ selectedActivity' = Null
  /\ loadActivities(inflight)
  /\ call' = NoCall
  /\ toasts' = <<>>
  /\ UNCHANGED <<page, activitiesMounted, activities>>

\* handleDeleteActivity up to `await activityService.delete(id)`, or to its end
\* when the user declines
handleDeleteActivity(id, confirmed) ==
  /\ ActivitiesVisible
  /\ ~activitiesShowModal
  /\ IF ~confirmed
     THEN UNCHANGED <<call, toasts, inflight>>
     ELSE /\ Len(inflight) < MaxInFlight
          /\ inflight' = Append(inflight, Awaiting("handleDeleteActivity", "activity",
                                                   "delete", id, Undef, Undef))
          /\ call' = NoCall
          /\ toasts' = <<>>
  /\ UNCHANGED <<page, activitiesMounted, activities, activitiesLoading,
                 activitiesError, activitiesShowModal, selectedActivity, lastLoad,
                 modal>>

\* handleDeleteActivity from the answer to its i-th invocation in flight on
handleDeleteActivity_resume(i) ==
  /\ inflight[i].caller = "handleDeleteActivity"
  /\ \E response \in PageResponses(inflight[i].svc, inflight[i].op) :
       LET r == ResumeOf(inflight[i], response)
       IN  /\ call' = DoneOf(inflight[i], response, r)
           /\ toasts' = r.toasts
           /\ IF r.kind = "return" /\ Truthy(r.value)
              THEN loadActivities(Remove(inflight, i))
              ELSE /\ inflight' = Remove(inflight, i)
                   /\ UNCHANGED <<activitiesLoading, activitiesError, lastLoad, modal>>
  /\ UNCHANGED <<page, activitiesMounted, activities, activitiesShowModal,
                 selectedActivity>>

\* another component calls getAll of a service while the page has calls in flight
getAll_elsewhere(svc) ==
  /\ activitiesMounted
  /\ Len(inflight) < MaxInFlight
  /\ inflight' = Append(inflight, Awaiting("direct", svc, "getAll", Undef, Undef, Undef))
  /\ call' = NoCall
  /\ toasts' = <<>>
  /\ UNCHANGED <<page, activitiesMounted, activities, activitiesLoading,
                 activitiesError, activitiesShowModal, selectedActivity, lastLoad,
                 modal>>

\* its answer
getAll_elsewhere_resume(i) ==
  /\ inflight[i].caller = "direct"
  /\ \E response \in PageResponses(inflight[i].svc, inflight[i].op) :
       LET r == ResumeOf(inflight[i], response)
       IN  /\ call' = DoneOf(inflight[i], response, r)
           /\ toasts' = r.toasts
  /\ inflight' = Remove(inflight, i)
  /\ UNCHANGED <<page, activitiesMounted, activities, activitiesLoading,
                 activitiesError, activitiesShowModal, selectedActivity, lastLoad,
                 modal>>

ActivitiesNext ==
  \/ Activities_mount
  \/ \E i \in DOMAIN inflight : loadActivities_resume(i)
  \/ handleCreateActivity
  \/ \E i \in DOMAIN activities : handleEditActivity(activities[i])
  \/ Activities_onClose
  \/ handleModalSave
  \/ \E i \in DOMAIN activities, confirmed \in BOOLEAN :
       handleDeleteActivity(Prop(activities[i].o, "Id"), confirmed)
  \/ \E i \in DOMAIN inflight : handleDeleteActivity_resume(i)
  \/ \E svc \in Services : getAll_elsewhere(svc)
  \/ \E i \in DOMAIN inflight : getAll_elsewhere_resume(i)

SpecActivities == Init /\ [][ActivitiesNext]_vars

(***************************************************************************)
(* ActivityModal, rendered by the Activities page with activity =          *)
(* selectedActivity, onClose and onSave = handleModalSave.                 *)
(***************************************************************************)
\* the modal is on the screen
ModalRendered == ActivitiesVisible /\ activitiesShowModal

\* what the user enters into the form
ActivityFormValues ==
  [Name |-> {Str(" "), Str(" Essay ")}, subject_c |-> {Str("English")},
   status_c |-> {Str("")}, priority_c |-> {Str("")},
   due_date_c |-> {Str("2024-05-01")}]

handleChange(field, value) ==
  /\ ModalRendered
  /\ activityFormData' = [activityFormData EXCEPT ![field] = value]
  /\ errors' = IF Truthy(Prop(errors, field))
               THEN [f \in DOMAIN errors |-> IF f = field THEN Str("") ELSE errors[f]]
               ELSE errors
  /\ call' = NoCall
  /\ toasts' = <<>>
  /\ UNCHANGED <<page, activitiesMounted, activities, activitiesLoading,
                 activitiesError, activitiesShowModal, selectedActivity, inflight,
                 lastLoad, saving>>

ValidationMessages ==
  [Name |-> Str("Activity name is required"), subject_c |-> Str("Subject is required"),
   status_c |-> Str("Status is required"), priority_c |-> Str("Priority is required"),
   due_date_c |-> Str("Due date is required")]

\* validateForm that does not trim Name and subject_c
validateForm_untrimmed(data) ==
  LET missing == {f \in DOMAIN ValidationMessages : ~Truthy(data[f])}
  IN  [f \in missing |-> ValidationMessages[f]]

\* newErrors of validateForm, for formData = data; the form is valid when it has
\* no keys
validateForm(data) ==
  LET missing ==
        {f \in {"Name", "subject_c"} : ~Truthy(Str(trim(data[f].s)))}
        \cup {f \in {"status_c", "priority_c", "due_date_c"} : ~Truthy(data[f])}
  IN  [f \in missing |-> ValidationMessages[f]]

\* activityData of handleSubmit
ActivityModal_activityData(data) ==
  [Name |-> Str(trim(data.Name.s)),
   subject_c |-> Str(trim(data.subject_c.s)),
   description_c |-> Str(trim(data.description_c.s)),
   status_c |-> data.status_c,
   priority_c |-> data.priority_c,
   due_date_c |-> data.due_date_c,
   Tags |-> Str(trim(data.Tags.s))]

\* handleSubmit up to its `await`, or to its return when the form is not valid
ActivityModal_handleSubmit ==
  /\ ModalRendered
  /\ errors' = validateForm(activityFormData)
  /\ IF DOMAIN validateForm(activityFormData) # {}
     THEN UNCHANGED <<saving, inflight>>
     ELSE /\ Len(inflight) < MaxInFlight
          \* the user submits again once the earlier submit was answered
          /\ \A j \in DOMAIN inflight :
               inflight[j].caller \notin {ModalCaller, OrphanCaller}
          /\ saving' = TRUE
          /\ inflight' =
               Append(inflight,
                      IF Truthy(selectedActivity)
                      THEN Awaiting(ModalCaller, "activity", "update",
                                    Prop(selectedActivity.o, "Id"),
                                    ActivityModal_activityData(activityFormData),
                                    selectedActivity)
                      ELSE Awaiting(ModalCaller, "activity", "create", Undef,
                                    ActivityModal_activityData(activityFormData),
                                    selectedActivity))
  /\ call' = NoCall
  /\ toasts' = <<>>
  /\ UNCHANGED <<page, activitiesMounted, activities, activitiesLoading,
                 activitiesError, activitiesShowModal, selectedActivity, lastLoad,
                 activityFormData>>

\* handleSubmit from the answer to its i-th invocation in flight on; onSave is
\* handleModalSave
ActivityModal_handleSubmit_resume(i) ==
  /\ inflight[i].caller \in {ModalCaller, OrphanCaller}
  /\ \E response \in PageResponses(inflight[i].svc, inflight[i].op) :
       LET r == ResumeOf(inflight[i], response)
           mounted_ == inflight[i].caller = ModalCaller
       IN  /\ call' = DoneOf(inflight[i], response, r)
           /\ toasts' = r.toasts
           /\ IF r.kind = "return" /\ Truthy(r.value)
              THEN /\ activitiesShowModal' = FALSE
                   /\ selectedActivity' = Null
                   /\ loadActivities(Remove(inflight, i))
              ELSE /\ inflight' = Remove(inflight, i)
                   /\ errors' = IF r.kind = "throw" /\ mounted_
                                THEN [submit |-> Or(r.value.message,
                                                    Str("Failed to save activity"))]
                                ELSE errors
                   /\ saving' = IF mounted_ THEN FALSE ELSE saving
                   /\ UNCHANGED <<activitiesShowModal, selectedActivity,
                                  activitiesLoading, activitiesError, lastLoad,
                                  activityFormData>>
  /\ UNCHANGED <<page, activitiesMounted, activities>>

ModalNext ==
  \/ Activities_mount
  \/ \E i \in DOMAIN inflight : loadActivities_resume(i)
  \/ handleCreateActivity
  \/ \E i \in DOMAIN activities : handleEditActivity(activities[i])
  \/ Activities_onClose
  \/ \E field \in DOMAIN ActivityFormValues : \E value \in ActivityFormValues[field] :
       handleChange(field, value)
  \/ ActivityModal_handleSubmit
  \/ \E i \in DOMAIN inflight : ActivityModal_handleSubmit_resume(i)

SpecModal == Init /\ [][ModalNext]_vars

(***************************************************************************)
(* Vocabulary of the properties.                                           *)
(***************************************************************************)
Completed == call.pc = "done"
IsWrite == call.op \in {"create", "update"}

\* the transport's answer: an exception, a non-success or a success envelope
Rejected == call.response.kind = "throw"
NonSuccess == call.response.kind = "envelope" /\ ~call.response.success
Success == call.response.kind = "envelope" /\ call.response.success

\* the per-record results of the answer, none when `results` is absent
Results == IF call.response.results.t = "array" THEN call.response.results.a ELSE <<>>
FailedResults == SelectSeq(Results, IsFailed)
SuccessfulResults == SelectSeq(Results, IsSuccessful)

Returned == call.outcome.kind = "return"
Threw == call.outcome.kind = "throw"

IsErrorToast(x) == x.level = "error"
IsSuccessToast(x) == x.level = "success"
ErrorToasts == SelectSeq(toasts, IsErrorToast)
SuccessToasts == SelectSeq(toasts, IsSuccessToast)
Texts(ts) == [i \in DOMAIN ts |-> ts[i].text]

\* the reasons of one failed record: "fieldLabel: message" of each entry of its
\* errors list, then its record-level message
ReasonsOf(record) ==
  (IF record.errors.t = "array"
   THEN [i \in DOMAIN record.errors.a |->
           Template(record.errors.a[i].fieldLabel, record.errors.a[i].message)]
   ELSE <<>>)
  \o (IF record.message.t = "string" THEN <<record.message>> ELSE <<>>)

Reasons == Flatten([i \in DOMAIN FailedResults |-> ReasonsOf(FailedResults[i])])

\* the service was called by the handler that reports its outcome to the user:
\* activityService notifies by itself, teacherService leaves it to the Teachers page
Reported == call.svc = "teacher" => call.caller # "direct"

(***************************************************************************)
(* C1                                                                      *)
(***************************************************************************)
\* C1, as claimed: whatever the operation, the service and the transport's
\* behaviour, a completed call has returned a value; no exception escapes.
C1_NoExceptionEscapes == Completed => Returned

HasMessage_failed == \E i \in DOMAIN FailedResults : Truthy(FailedResults[i].message)

\* C1, amended: every activityService call returns a value, whatever the
\* transport does.  A teacherService call throws exactly when the transport threw
\* (the exception is rethrown), or when create, update or delete got a non-success
\* envelope or a failed per-record result that has a message; otherwise it
\* returns a value.
C1_OnlyTeacherServiceThrows ==
  Completed =>
    (Threw <=>
       /\ call.svc = "teacher"
       /\ \/ Rejected
          \/ /\ call.op \in {"create", "update", "delete"}
             /\ NonSuccess \/ (Success /\ HasMessage_failed))

\* a teacherService call has thrown on a failed record's message, under a success
\* envelope
C1_Witness ==
  /\ Completed
  /\ call.svc = "teacher"
  /\ Success
  /\ HasMessage_failed
  /\ Threw

(***************************************************************************)
(* C2                                                                      *)
(***************************************************************************)
\* C2: a create or update whose envelope is a success and whose results hold a
\* failed record does not return a record, and its error notifications are the
\* reasons of the failed records, one notification per reason ("fieldLabel:
\* message" for each field-level reason, the message for each record-level one).
C2_PartialFailureReportsEveryReason ==
  (Completed /\ Reported /\ IsWrite /\ Success /\ Len(FailedResults) > 0) =>
    /\ ~(Returned /\ call.outcome.value.t = "object")
    /\ Texts(ErrorToasts) = Reasons
    /\ SuccessToasts = <<>>

(***************************************************************************)
(* C3                                                                      *)
(***************************************************************************)
\* C3: a create, update or delete whose results hold failed records emits at
\* least one error notification for each of them, also for a failed record that
\* has neither an errors list nor a message.
C3_EveryFailedRecordSurfaces ==
  (/\ Completed /\ Reported
   /\ call.op \in {"create", "update", "delete"}
   /\ Success /\ Len(FailedResults) > 0) =>
    Len(ErrorToasts) >= Len(FailedResults)

(***************************************************************************)
(* C4                                                                      *)
(***************************************************************************)
\* the one record of the request of a create or update
OutgoingRecord == call.requests[1].params.records[1]

\* C4: create and update send one request with one record; its fields are
\* updateable fields of the resource, and for update the Id; a create record has
\* no Id; CreatedOn, ModifiedOn and unknown fields of the payload are in neither.
C4_OnlyUpdateableFieldsAreSent ==
  (call.pc \in {"awaiting", "done"} /\ IsWrite) =>
    /\ Len(call.requests) = 1
    /\ Len(call.requests[1].params.records) = 1
    /\ DOMAIN OutgoingRecord \subseteq
         Updateable(call.svc) \cup (IF call.op = "update" THEN {"Id"} ELSE {})
    /\ (call.op = "update") <=> ("Id" \in DOMAIN OutgoingRecord)

\* a create was sent for a payload that holds foreign fields
C4_Witness ==
  /\ call.pc = "awaiting"
  /\ call.op = "create"
  /\ ForeignFields \subseteq DOMAIN call.data
  /\ DOMAIN OutgoingRecord = Updateable(call.svc)

(***************************************************************************)
(* C5                                                                      *)
(***************************************************************************)
\* what the method of `call` ends with on the answer `response`
OutcomeOn(response) ==
  LET r == Resume(response) IN [kind |-> r.kind, value |-> r.value]

\* C5: getAll answered by a non-success envelope returns a value that differs
\* from the one it returns for a successful empty list, and has emitted the
\* envelope's message as an error notification.
C5_ListFailureIsDistinguishable ==
  (Completed /\ call.op = "getAll" /\ NonSuccess) =>
    /\ Returned
    /\ call.outcome # OutcomeOn(Envelope(TRUE, Undef, Arr(<<>>), Undef))
    /\ Texts(ErrorToasts) = <<call.response.message>>

(***************************************************************************)
(* C6                                                                      *)
(***************************************************************************)
NoRows == call.response.data.t # "array" \/ call.response.data.a = <<>>

\* C6: getAll answered by a success envelope whose data is empty, null or absent
\* returns the empty array.
C6_EmptyListIsAnArray ==
  (Completed /\ call.op = "getAll" /\ Success /\ NoRows) =>
    /\ Returned
    /\ call.outcome.value.t = "array"
    /\ call.outcome.value.a = <<>>

\* getAll has returned for a success envelope whose data is null
C6_Witness ==
  /\ Completed
  /\ call.op = "getAll"
  /\ Success
  /\ call.response.data.t = "null"
  /\ call.outcome.value.t = "array"

(***************************************************************************)
(* C7                                                                      *)
(***************************************************************************)
\* C7: a create or update whose envelope is a success and whose results hold no
\* failed and at least one successful record returns the data of the first
\* successful record, and one success notification is emitted for it (by
\* activityService itself; for teacherService by Teachers.handleSubmit).
C7_SuccessReturnsFirstRecord ==
  (/\ Completed /\ Reported /\ IsWrite /\ Success
   /\ Len(FailedResults) = 0 /\ Len(SuccessfulResults) > 0) =>
    /\ Returned
    /\ call.outcome.value = SuccessfulResults[1].data
    /\ Len(SuccessToasts) = 1

\* a write answered with two successful records, the first without data, has
\* returned; one through the Teachers page
C7_Witness ==
  /\ Completed
  /\ call.caller = "handleSubmit"
  /\ Success
  /\ Len(FailedResults) = 0
  /\ Len(SuccessfulResults) = 2
  /\ SuccessfulResults[1].data # SuccessfulResults[2].data
  /\ Len(SuccessToasts) = 1

(***************************************************************************)
(* C8                                                                      *)
(***************************************************************************)
\* C8: a create or update whose envelope is a success and whose results are
\* empty or absent does not end as a success, and is reported to the user by an
\* error notification.
C8_NoResultIsAReportedFailure ==
  (Completed /\ Reported /\ IsWrite /\ Success /\ Results = <<>>) =>
    /\ ~(Returned /\ call.outcome.value.t = "object")
    /\ SuccessToasts = <<>>
    /\ Len(ErrorToasts) >= 1

(***************************************************************************)
(* C9                                                                      *)
(***************************************************************************)
NotFound == call.op = "getById" /\ Success /\ ~Truthy(call.response.data)

\* C9: counting the notifications of the service and of its calling page: a call
\* whose transport threw or answered a non-success envelope has one error
\* notification; a call with failed per-record results has one error
\* notification per reason; a getById that found no row has none.
C9_OneNotificationPerFailure ==
  Completed =>
    /\ (Reported /\ (Rejected \/ NonSuccess)) => Len(ErrorToasts) = 1
    /\ (/\ Reported /\ call.op \in {"create", "update", "delete"}
        /\ Success /\ Len(FailedResults) > 0) => Len(ErrorToasts) = Len(Reasons)
    /\ NotFound => toasts = <<>>

(***************************************************************************)
(* C10                                                                     *)
(***************************************************************************)
\* what the method of `call` ends with when the transport fails
FailureOutcomes == {OutcomeOn(f) : f \in Failure \cup {Thrown}}

\* C10, as claimed: a getById that found no row returns, emits no notification,
\* and its outcome is none of those the method has on a transport failure.
C10_NotFoundIsDistinctFromFailure ==
  (Completed /\ NotFound) =>
    /\ Returned
    /\ toasts = <<>>
    /\ call.outcome \notin FailureOutcomes

\* C10, amended: a getById that found no row returns null or undefined
\* (activityService hands on the data of the envelope, teacherService returns
\* null) and emits no notification.  The value is not distinct from a failure's:
\* teacherService returns the same null for a non-success envelope, and so does
\* activityService when the data is null.
C10_NotFoundIsAnEmptyValue ==
  (Completed /\ NotFound) =>
    /\ Returned
    /\ call.outcome.value.t \in {"null", "undefined"}
    /\ call.outcome.value =
         (IF call.svc = "activity" THEN call.response.data ELSE Null)
    /\ toasts = <<>>
    /\ (call.svc = "teacher" \/ call.response.data.t = "null") =>
         call.outcome \in FailureOutcomes

\* a getById with a well-formed id has found no row
C10_Witness ==
  /\ Completed
  /\ NotFound
  /\ call.id = Num(7)
  /\ call.svc = "activity"
  /\ call.response.data.t = "null"
  /\ call.outcome.value.t = "null"

(***************************************************************************)
(* C11                                                                     *)
(***************************************************************************)
\* the messages of the failed per-record results, in order
FailureMessages ==
  LET withMessage == SelectSeq(FailedResults, HasMessage)
  IN  [i \in DOMAIN withMessage |-> withMessage[i].message]

\* C11: a delete whose envelope is a success and whose results hold a failed
\* record does not return true; reported to the user, it has one error
\* notification per failure message and no success notification.
C11_FailedDeleteIsNeverASuccess ==
  (Completed /\ call.op = "delete" /\ Success /\ Len(FailedResults) > 0) =>
    /\ ~(Returned /\ call.outcome.value = Bool(TRUE))
    /\ Reported =>
         /\ Len(ErrorToasts) = Len(FailureMessages)
         /\ SuccessToasts = <<>>

(***************************************************************************)
(* C12                                                                     *)
(***************************************************************************)
\* the RecordIds of the request of a delete
RecordIds == call.requests[1].params.RecordIds

AllSucceeded == Success /\ Len(FailedResults) = 0 /\ Len(SuccessfulResults) > 0

\* C12, as claimed: a delete called with a list of ids sends one request that
\* carries these ids; a delete whose results all succeeded returns true, and one
\* success notification is emitted for it.
C12_DeleteSendsTheIdsInOneRequest ==
  /\ (call.pc \in {"awaiting", "done"} /\ call.op = "delete" /\ call.id.t = "array") =>
       /\ Len(call.requests) = 1
       /\ RecordIds = call.id.a
  /\ (Completed /\ Reported /\ call.op = "delete" /\ AllSucceeded) =>
       /\ Returned
       /\ call.outcome.value = Bool(TRUE)
       /\ Len(SuccessToasts) = 1

\* C12, amended: delete takes one id and sends one request whose RecordIds holds
\* one element, parseInt(id) for activityService and the id as passed for
\* teacherService; called with a list it sends the leading integer of the list,
\* respectively the list as the one element.  A delete whose results all
\* succeeded returns true, and one success notification is emitted for it (by
\* activityService itself; for teacherService by Teachers.handleDelete).
C12_DeleteSendsOneId ==
  /\ (call.pc \in {"awaiting", "done"} /\ call.op = "delete") =>
       /\ Len(call.requests) = 1
       /\ Len(RecordIds) = 1
       /\ RecordIds[1] = (IF call.svc = "activity" THEN parseInt(call.id) ELSE call.id)
  /\ (Completed /\ Reported /\ call.op = "delete" /\ AllSucceeded) =>
       /\ Returned
       /\ call.outcome.value = Bool(TRUE)
       /\ Len(SuccessToasts) = 1

\* activityService.delete was called with a list of two ids, sent the first of
\* them, and ended as a success with its one notification
C12_Witness ==
  /\ Completed
  /\ call.svc = "activity"
  /\ call.op = "delete"
  /\ call.id = Arr(<<Num(1), Num(2)>>)
  /\ RecordIds = <<Num(1)>>
  /\ AllSucceeded
  /\ call.outcome.value = Bool(TRUE)
  /\ Len(SuccessToasts) = 1

(***************************************************************************)
(* C13                                                                     *)
(***************************************************************************)
\* id is not a positive integer, nor a string that reads as one
Malformed(id) ==
  LET n == parseInt(id) IN n.t # "number" \/ n.n <= 0

\* C13: a getById, update or delete called with a malformed id (undefined, a
\* non-numeric string, zero) sends no request.
C13_MalformedIdSendsNothing ==
  (/\ call.pc \in {"awaiting", "done"}
   /\ call.op \in {"getById", "update", "delete"}
   /\ call.id.t # "array"
   /\ Malformed(call.id)) =>
    call.requests = <<>>

(***************************************************************************)
(* C14                                                                     *)
(***************************************************************************)
\* C14: an update sends one request with one record; the record has an Id, the
\* Id is the id the caller passed or its integer coercion, and it is an
\* identifier (not undefined, null or NaN).
C14_UpdateCarriesTheCallersId ==
  (call.pc \in {"awaiting", "done"} /\ call.op = "update") =>
    /\ Len(call.requests) = 1
    /\ Len(call.requests[1].params.records) = 1
    /\ "Id" \in DOMAIN OutgoingRecord
    /\ OutgoingRecord.Id \in {call.id, parseInt(call.id)}
    /\ OutgoingRecord.Id.t \in {"number", "string"}

(***************************************************************************)
(* C15                                                                     *)
(***************************************************************************)
\* C15: an invocation sends at most one request, whatever the answer; one whose
\* transport threw or answered a non-success envelope has ended, and was
\* reported to the user by one error notification and no other.
C15_OneRequestOneReport ==
  /\ Len(call.requests) <= 1
  /\ (call.pc # "idle" /\ call.response # Undef /\ (Rejected \/ NonSuccess)) =>
       /\ Completed
       /\ Reported => (Len(ErrorToasts) = 1 /\ SuccessToasts = <<>>)

(***************************************************************************)
(* C16                                                                     *)
(***************************************************************************)
\* the request the method of the invocation c builds from c's own arguments
RequestOf(c) ==
  IF c.svc = "activity" THEN activityService_request(c.op, c.id, c.data)
  ELSE teacherService_request(c.op, c.id, c.data)

C17_TeachersAreTeacherRecords ==
  \A i \in DOMAIN teachers : teachers[i].t = "object"

(***************************************************************************)
(* C18                                                                     *)
(***************************************************************************)
DeletedToast == ToastSuccess(Str("Teacher deleted successfully"))

ShowsDeleted == \E i \in DOMAIN toasts : toasts[i] = DeletedToast

\* C18: a step of the Teachers page that removes a teacher from the list, or that
\* shows 'Teacher deleted successfully', is the end of a handleDelete whose
\* deleteRecord answered a success envelope with a successful and no failed
\* result; so a declined confirmation and a delete that did not succeed leave
\* the list as it was and show no success notification.
C18_DeletedOnlyWhenTheDeleteSucceeded ==
  [][(Len(teachers') < Len(teachers) \/ (ShowsDeleted' /\ toasts' # toasts)) =>
       (call'.caller = "handleDelete" /\ Completed' /\ AllSucceeded')]_vars

(***************************************************************************)
(* C19                                                                     *)
(***************************************************************************)
NoLoadInFlight == \A i \in DOMAIN inflight : ~IsLoad(inflight[i])

\* C19: on the Activities page, when no loadActivities call is in flight, the
\* list shown is the one the loadActivities call started last has returned.
C19_ShownListIsOfTheLatestLoad ==
  (activitiesMounted /\ NoLoadInFlight /\ lastLoad.outcome.kind = "return") =>
    activities = Or(lastLoad.outcome.value, Arr(<<>>)).a

(***************************************************************************)
(* C20                                                                     *)
(***************************************************************************)
\* C20: on the Activities page the loading flag is true exactly while a
\* loadActivities call is in flight.
C20_LoadingWhileALoadIsInFlight ==
  activitiesMounted => (activitiesLoading <=> ~NoLoadInFlight)

(***************************************************************************)
(* C21                                                                     *)
(***************************************************************************)
\* the string holds nothing but blanks
Blank(s) == \A i \in 1..Len(s) : SubSeq(s, i, i) = " "

FormIsValid ==
  /\ ~Blank(activityFormData.Name.s)
  /\ ~Blank(activityFormData.subject_c.s)
  /\ activityFormData.status_c # Str("")
  /\ activityFormData.priority_c # Str("")
  /\ activityFormData.due_date_c # Str("")

SubmitInFlight == \E j \in DOMAIN inflight : inflight[j].caller = ModalCaller

\* the step has run handleModalSave: the modal is closed and a loadActivities
\* call was started in the place of the submit
OnSaveRan ==
  /\ ~activitiesShowModal'
  /\ selectedActivity' = Null
  /\ Len(inflight') = Len(inflight)
  /\ IsLoad(inflight'[Len(inflight')])

\* C21: a submit of ActivityModal whose form is not valid sends nothing and
\* leaves saving as it was, which is false unless an earlier submit is in
\* flight; a submit whose form is valid sets saving and makes one call, update
\* with the Id of the activity edited, or create when none is; when the call is
\* answered onSave runs if and only if the call returned a record, and saving
\* is false again.
C21_SubmitValidatesCallsOnceAndResets ==
  /\ [](saving => SubmitInFlight)
  /\ [][/\ ActivityModal_handleSubmit =>
             IF FormIsValid
             THEN /\ saving'
                  /\ Len(inflight') = Len(inflight) + 1
                  /\ SubSeq(inflight', 1, Len(inflight)) = inflight
                  /\ LET c == inflight'[Len(inflight')]
                     IN  /\ c.caller = ModalCaller
                         /\ c.svc = "activity"
                         /\ Len(c.requests) = 1
                         /\ IF Truthy(selectedActivity)
                            THEN /\ c.op = "update"
                                 /\ c.id = Prop(selectedActivity.o, "Id")
                            ELSE c.op = "create"
             ELSE /\ inflight' = inflight
                  /\ saving' = saving
        /\ \A i \in DOMAIN inflight :
             ActivityModal_handleSubmit_resume(i) =>
               /\ OnSaveRan <=>
                    (call'.outcome.kind = "return" /\ call'.outcome.value.t = "object")
               /\ inflight[i].caller = ModalCaller => ~saving']_vars

\* the update of an edited activity has returned a record: onSave has closed the
\* modal and started a load, and saving is false
C21_Witness ==
  /\ Completed
  /\ call.caller = ModalCaller
  /\ call.op = "update"
  /\ call.outcome.value.t = "object"
  /\ ~activitiesShowModal
  /\ ~saving
  /\ inflight # <<>>
  /\ IsLoad(inflight[Len(inflight)])

(***************************************************************************)
(* C22                                                                     *)
(***************************************************************************)
\* the capital letters of the names in use, each with its small letter
CasePairs == {<<"A", "a">>, <<"B", "b">>, <<"E", "e">>, <<"M", "m">>, <<"N", "n">>,
              <<"P", "p">>}

SameLetter(a, b) == a = b \/ <<a, b>> \in CasePairs \/ <<b, a>> \in CasePairs

\* q occurs in s at some position, letters compared without their case
ContainsIgnoringCase(s, q) ==
  \E i \in 1..(Len(s) - Len(q) + 1) :
    \A k \in 1..Len(q) : SameLetter(SubSeq(s, i + k - 1, i + k - 1), SubSeq(q, k, k))

Matches(teacher) ==
  /\ \/ searchQuery = Str("")
     \/ \E f \in {"name_c", "email_c", "department_c"} :
          /\ Prop(teacher.o, f).t = "string"
          /\ ContainsIgnoringCase(Prop(teacher.o, f).s, searchQuery.s)
  /\ \/ filterDepartment = Str("all")
     \/ Prop(teacher.o, "department_c") = filterDepartment

\* C22: on the Teachers page, as rendered, filteredTeachers is the teachers, in
\* the order of the list, whose name, email or department contains the search
\* query without regard to case (every teacher when the query is empty) and
\* whose department is the selected one (any when it is 'all'); each of its
\* elements is an element of teachers.
C22_FilteredTeachersAreTheMatches ==
  (mounted /\ ~RenderThrows) =>
    /\ filteredTeachers = SelectSeq(teachers, Matches)
    /\ \A i \in DOMAIN filteredTeachers :
         \E j \in DOMAIN teachers : filteredTeachers[i] = teachers[j]

\* the query 'AN' has kept Ann, whose name holds it in another case, and has
\* dropped Bob
C22_Witness ==
  /\ mounted
  /\ searchQuery = Str("AN")
  /\ Len(teachers) = 2
  /\ Len(filteredTeachers) = 1
  /\ Prop(filteredTeachers[1].o, "name_c") = Str("Ann")

====
